---- MODULE Spec2Model ----
(***************************************************************************)
(* Progress -> completion -> certificate issuance pipeline of the online   *)
(* course platform backend (Express handlers over Mongoose models).        *)
(*                                                                         *)
(* One (student, course) pair is modelled.  The persisted state is the     *)
(* Progress collection, the Certificate collection and the course's module *)
(* structure.  Every request handler is split at its awaits on the         *)
(* database, so concurrent requests interleave exactly where the Node.js   *)
(* event loop lets them.  Each request works on its own in-memory copy of  *)
(* the document it loaded (doc) and remembers what it loaded (base).       *)
(*                                                                         *)
(* document.save() is modelled as Mongoose performs it: the paths whose    *)
(* value differs from the loaded one are $set, pushed array elements are   *)
(* $push-ed, schema validators run first, and the version key __v guards   *)
(* updates that touch paths inside moduleProgress.                         *)
(*                                                                         *)
(* The payment and submission controllers are modelled next to it, with    *)
(* requests served one at a time: payments, the enrolment list and stats   *)
(* of the course, and the submissions of one assignment.                   *)
(***************************************************************************)
EXTENDS Integers, FiniteSets, Sequences, TLC

VARIABLES
  progressDocs,   \* the Progress collection (unique on student, course)
  certificates,   \* the Certificate collection (unique on student, course)
  course,         \* moduleId -> number of lessons the course declares
  now,            \* the wall clock
  nextId,         \* next fresh ObjectId
  req,            \* the requests in flight, one per slot
  last,           \* the request that was answered last
  errs,           \* failures of the issuance trigger swallowed so far
  acked,          \* completions acknowledged with status 200 so far
  payments,       \* the Payment collection, in insertion order
  courseDoc,      \* status, pricing, enrolledStudents and stats of the course
  users,          \* student -> length of the user's enrolledCourses
  submissions     \* the Submission collection, in insertion order

\* the collections of the payment and submission controllers
campus == <<payments, courseDoc, users, submissions>>
vars == <<progressDocs, certificates, course, now, nextId, req, last, errs, acked, campus>>
db == <<progressDocs, certificates, course, now, nextId, campus>>

(* ------------------------------ bounds -------------------------------- *)
MaxLessons == 2       \* lessons a course module declares: 1..MaxLessons
MaxClock == 2         \* values of the wall clock
MaxCount == 1         \* assessment totals: 0..MaxCount, completed: 0..MaxCount+1
MaxMinutes == 1       \* persisted time-spent totals are capped for the search
MaxItems == 40        \* modules + assignments + quizzes of a record
MaxViews == 1         \* cap of each analytics counter of a certificate
MaxPayments == 2      \* payments of the course
MaxEnrolled == 2      \* entries of the course's enrolledStudents
MaxSubmissions == 3   \* submissions of the assignment

Reqs == {"r1", "r2"}   \* request slots that can be in flight together
Modules == {"m1", "m2"}
LessonIds == {"l1", "l2"}
Absent == 0 - 1       \* the course does not contain the module
CourseConfigs == [Modules -> {Absent} \cup 1..MaxLessons]
\* what a client sends to GET /verify/:verificationCode
VerifyInputs == {<<"a", "1">>, <<"A", "1">>, <<"B", "1">>, <<"a">>}
RawCodes == {<<"a", "1">>, <<"b", "1">>}   \* timestamp and random part of a code, base 36
OneCode == {<<"a", "1">>}
Randoms == {7}        \* Math.floor(Math.random() * 10000)
MaxScore == 100       \* max of avgQuizScore, avgAssignmentScore and finalScore
ScoreValues == {0, MaxScore}

(* -------------------- IEEE 754 binary64 arithmetic --------------------- *)
\* A positive Number is [m |-> <<L3, L2, L1, L0>>, e |-> exponent]: the 53
\* significant bits in four limbs (11 + 14 + 14 + 14 bits, most significant
\* first), and the binary exponent of the first bit.
Limb == 2 ^ 14

\* the limbs after adding one unit in the last place
Increment(m, e) ==
  LET l0 == m[4] + 1
      l1 == m[3] + (l0 \div Limb)
      l2 == m[2] + (l1 \div Limb)
      l3 == m[1] + (l2 \div Limb)
  IN IF l3 = 2 ^ 11 THEN [m |-> <<2 ^ 10, 0, 0, 0>>, e |-> e + 1]
     ELSE [m |-> <<l3, l2 % Limb, l1 % Limb, l0 % Limb>>, e |-> e]

\* round to nearest, ties to even: guard is the first dropped bit, sticky
\* says whether a later dropped bit is set
RoundToEven(m, e, guard, sticky) ==
  IF guard = 1 /\ (sticky \/ (m[4] % 2) = 1) THEN Increment(m, e)
  ELSE [m |-> m, e |-> e]

\* the exponent of num / den > 0: 2^e <= num / den < 2^(e+1)
RECURSIVE Exponent(_, _)
Exponent(num, den) ==
  IF num >= 2 * den THEN 1 + Exponent(num, 2 * den)
  ELSE IF num < den THEN Exponent(2 * num, den) - 1
  ELSE 0

\* the Number num / den for integers num > 0, den > 0: long division, 11
\* bits and then 14 bits at a time
Divide(num, den) ==
  LET e == Exponent(num, den)
      n == IF e < 0 THEN num * 2 ^ (0 - e) ELSE num
      d == IF e > 0 THEN den * 2 ^ e ELSE den
      l3 == (n * 2 ^ 10) \div d
      r3 == (n * 2 ^ 10) % d
      l2 == (r3 * Limb) \div d
      r2 == (r3 * Limb) % d
      l1 == (r2 * Limb) \div d
      r1 == (r2 * Limb) % d
      l0 == (r1 * Limb) \div d
      r0 == (r1 * Limb) % d
  IN RoundToEven(<<l3, l2, l1, l0>>, e, (2 * r0) \div d, ((2 * r0) % d) # 0)

\* the Number with the value of the limbs q (the first one of up to 19
\* bits) at the exponent e of a 53-bit significand: the shift that
\* brings it back to 53 bits, and the rounding
Normalize(q, e) ==
  LET s == CHOOSE i \in 0..8 : 2 ^ (10 + i) <= q[1] /\ q[1] < 2 ^ (11 + i)
      up == 2 ^ (14 - s)
      m == <<q[1] \div 2 ^ s,
             (q[2] \div 2 ^ s) + (q[1] % 2 ^ s) * up,
             (q[3] \div 2 ^ s) + (q[2] % 2 ^ s) * up,
             (q[4] \div 2 ^ s) + (q[3] % 2 ^ s) * up>>
  IN IF s = 0 THEN [m |-> q, e |-> e]
     ELSE RoundToEven(m, e + s, (q[4] \div 2 ^ (s - 1)) % 2,
                      (q[4] % 2 ^ (s - 1)) # 0)

\* the limbs of m * k + n with the carries propagated, 1 <= k <= 256
MultiplyAdd(m, k, n) ==
  LET p0 == m[4] * k + n[4]
      p1 == m[3] * k + n[3] + (p0 \div Limb)
      p2 == m[2] * k + n[2] + (p1 \div Limb)
      top == m[1] * k + n[1] + (p2 \div Limb)
  IN <<top, p2 % Limb, p1 % Limb, p0 % Limb>>

\* the Number x * k for an integer 1 <= k <= 128
Times(x, k) == Normalize(MultiplyAdd(x.m, k, <<0, 0, 0, 0>>), x.e)

\* the Number x + y for exponents no more than 7 apart
Plus(x, y) ==
  IF x.e >= y.e THEN Normalize(MultiplyAdd(x.m, 2 ^ (x.e - y.e), y.m), y.e)
  ELSE Normalize(MultiplyAdd(y.m, 2 ^ (y.e - x.e), x.m), x.e)

\* Math.round of a positive Number below 2^24: the nearest integer, a
\* fraction of one half going up
MathRound(x) ==
  LET h == x.m[1] * Limb + x.m[2]
  IN IF x.e < 0 - 1 THEN 0
     ELSE (h \div 2 ^ (24 - x.e)) + ((h \div 2 ^ (23 - x.e)) % 2)

\* Math.round((a / b) * 100) for integers a >= 0, b > 0
Percentage(a, b) == IF a = 0 THEN 0 ELSE MathRound(Times(Divide(a, b), 100))

\* the same, computed once for the item counts the model can reach
PercentageTable ==
  [a \in 0..(2 * MaxItems + 2), b \in 1..(MaxItems + 2) |-> Percentage(a, b)]

\* Math.round((q * 0.4) + (a * 0.6)) for integers q, a in 0..100, not both 0
WeightedScore(q, a) ==
  IF q = 0 THEN MathRound(Times(Divide(3, 5), a))
  ELSE IF a = 0 THEN MathRound(Times(Divide(2, 5), q))
  ELSE MathRound(Plus(Times(Divide(2, 5), q), Times(Divide(3, 5), a)))

\* the same, computed once for every pair of average scores
WeightedScoreTable ==
  [q \in 0..MaxScore, a \in 0..MaxScore |-> IF q = 0 /\ a = 0 THEN 0 ELSE WeightedScore(q, a)]

(* ------------------------ Completion Calculator ------------------------ *)
\* num / den rounded to the nearest integer, one half going up
Round(num, den) == (2 * num + den) \div (2 * den)

CompletedModules(doc) ==
  {m \in DOMAIN doc.moduleProgress : doc.moduleProgress[m].completed}

calculateOverallProgress(doc) ==
  IF DOMAIN doc.moduleProgress = {} THEN 0
  ELSE PercentageTable[Cardinality(CompletedModules(doc)),
                       Cardinality(DOMAIN doc.moduleProgress)]

\* a calculation whose filter keeps the modules that are not completed
calculateCompletionPercentageOpen(doc) ==
  LET withA == doc.totalAssignments > 0
      withQ == doc.totalQuizzes > 0
      totalItems == Cardinality(DOMAIN doc.moduleProgress)
                    + (IF withA THEN doc.totalAssignments ELSE 0)
                    + (IF withQ THEN doc.totalQuizzes ELSE 0)
      completedItems == Cardinality(DOMAIN doc.moduleProgress \ CompletedModules(doc))
                    + (IF withA THEN doc.completedAssignments ELSE 0)
                    + (IF withQ THEN doc.completedQuizzes ELSE 0)
  IN IF totalItems > 0 THEN PercentageTable[completedItems, totalItems] ELSE 0

calculateCompletionPercentage(doc) ==
  LET withA == doc.totalAssignments > 0
      withQ == doc.totalQuizzes > 0
      totalItems == Cardinality(DOMAIN doc.moduleProgress)
                    + (IF withA THEN doc.totalAssignments ELSE 0)
                    + (IF withQ THEN doc.totalQuizzes ELSE 0)
      completedItems == Cardinality(CompletedModules(doc))
                    + (IF withA THEN doc.completedAssignments ELSE 0)
                    + (IF withQ THEN doc.completedQuizzes ELSE 0)
  IN IF totalItems > 0 THEN PercentageTable[completedItems, totalItems] ELSE 0

\* a calculation that gives the quizzes the weight of the assignments
calculateFinalScoreSwapped(doc) ==
  IF doc.avgQuizScore = 0 /\ doc.avgAssignmentScore = 0 THEN 85
  ELSE WeightedScoreTable[doc.avgAssignmentScore, doc.avgQuizScore]

calculateFinalScore(doc) ==
  IF doc.avgQuizScore = 0 /\ doc.avgAssignmentScore = 0 THEN 85
  ELSE WeightedScoreTable[doc.avgQuizScore, doc.avgAssignmentScore]

(* --------------------------- documents -------------------------------- *)
\* completedLessons is an array of lesson ids: lessonId -> occurrences
NoLessons == [l \in LessonIds |-> 0]
NewModule == [completed |-> FALSE, completedLessons |-> NoLessons, timeSpent |-> 0]

RECURSIVE Sum(_, _)
Sum(f, S) == IF S = {} THEN 0
             ELSE LET x == CHOOSE y \in S : TRUE IN f[x] + Sum(f, S \ {x})

\* completedLessons.length
Length(lessons) == Sum(lessons, DOMAIN lessons)

\* new Progress({student, course, moduleProgress, overallProgress: 0, totalTimeSpent: 0})
NewProgress(mods) ==
  [moduleProgress |-> [m \in mods |-> NewModule],
   overallProgress |-> 0, completionPercentage |-> 0, finalScore |-> 0,
   totalAssignments |-> 0, completedAssignments |-> 0,
   totalQuizzes |-> 0, completedQuizzes |-> 0,
   avgQuizScore |-> 0, avgAssignmentScore |-> 0,
   totalTimeSpent |-> 0, completionDate |-> 0, completedAt |-> 0,
   certificateEarned |-> 0, certificateGenerated |-> FALSE, v |-> 0]

NoDoc == NewProgress({})

\* a schema without the max validators of the two percentages
progressSchemaNoMax(doc) ==
  /\ doc.overallProgress >= 0
  /\ doc.completionPercentage >= 0
  /\ doc.finalScore >= 0 /\ doc.finalScore <= 100
  /\ doc.avgQuizScore >= 0 /\ doc.avgQuizScore <= 100
  /\ doc.avgAssignmentScore >= 0 /\ doc.avgAssignmentScore <= 100
  /\ doc.totalTimeSpent >= 0
  /\ \A m \in DOMAIN doc.moduleProgress : doc.moduleProgress[m].timeSpent >= 0

\* schema validators run by save(): min/max of the Number paths
progressSchema(doc) ==
  /\ doc.overallProgress >= 0 /\ doc.overallProgress <= 100
  /\ doc.completionPercentage >= 0 /\ doc.completionPercentage <= 100
  /\ doc.finalScore >= 0 /\ doc.finalScore <= 100
  /\ doc.avgQuizScore >= 0 /\ doc.avgQuizScore <= 100
  /\ doc.avgAssignmentScore >= 0 /\ doc.avgAssignmentScore <= 100
  /\ doc.totalTimeSpent >= 0
  /\ \A m \in DOMAIN doc.moduleProgress : doc.moduleProgress[m].timeSpent >= 0

Pick(new, old, cur) == IF new # old THEN new ELSE cur

\* the update save() sends for a loaded document: $set of the modified
\* paths, $push of the added lesson ids, $inc of __v when an array changed
save(cur, base, doc) ==
  [moduleProgress |->
     [m \in DOMAIN cur.moduleProgress |->
        [completed |-> Pick(doc.moduleProgress[m].completed,
                            base.moduleProgress[m].completed,
                            cur.moduleProgress[m].completed),
         completedLessons |->
           [l \in LessonIds |-> cur.moduleProgress[m].completedLessons[l]
                                + doc.moduleProgress[m].completedLessons[l]
                                - base.moduleProgress[m].completedLessons[l]],
         timeSpent |-> Pick(doc.moduleProgress[m].timeSpent,
                            base.moduleProgress[m].timeSpent,
                            cur.moduleProgress[m].timeSpent)]],
   overallProgress |-> Pick(doc.overallProgress, base.overallProgress, cur.overallProgress),
   completionPercentage |-> Pick(doc.completionPercentage, base.completionPercentage,
                                 cur.completionPercentage),
   finalScore |-> Pick(doc.finalScore, base.finalScore, cur.finalScore),
   totalAssignments |-> Pick(doc.totalAssignments, base.totalAssignments, cur.totalAssignments),
   completedAssignments |-> Pick(doc.completedAssignments, base.completedAssignments,
                                 cur.completedAssignments),
   totalQuizzes |-> Pick(doc.totalQuizzes, base.totalQuizzes, cur.totalQuizzes),
   completedQuizzes |-> Pick(doc.completedQuizzes, base.completedQuizzes, cur.completedQuizzes),
   avgQuizScore |-> Pick(doc.avgQuizScore, base.avgQuizScore, cur.avgQuizScore),
   avgAssignmentScore |-> Pick(doc.avgAssignmentScore, base.avgAssignmentScore,
                               cur.avgAssignmentScore),
   totalTimeSpent |-> Pick(doc.totalTimeSpent, base.totalTimeSpent, cur.totalTimeSpent),
   completionDate |-> Pick(doc.completionDate, base.completionDate, cur.completionDate),
   completedAt |-> Pick(doc.completedAt, base.completedAt, cur.completedAt),
   certificateEarned |-> Pick(doc.certificateEarned, base.certificateEarned,
                              cur.certificateEarned),
   certificateGenerated |-> Pick(doc.certificateGenerated, base.certificateGenerated,
                                 cur.certificateGenerated),
   v |-> IF \E m \in DOMAIN doc.moduleProgress :
                 doc.moduleProgress[m].completedLessons
                   # base.moduleProgress[m].completedLessons
         THEN cur.v + 1 ELSE cur.v]

(* ------------------------- Certificate Entity -------------------------- *)
\* String.prototype.toUpperCase on the letters of the codes
Upper(ch) == IF ch = "a" THEN "A" ELSE IF ch = "b" THEN "B" ELSE ch
toUpperCase(str) == [i \in DOMAIN str |-> Upper(str[i])]

\* an unset String path: undefined, falsy like the empty string
Unset == <<>>

\* a || b on Numbers
Or(a, b) == IF a = 0 THEN b ELSE a

\* new Certificate({..., performance: {finalScore: progressData.finalScore || 85, ...}})
\* with the defaults of the schema
NewCertificate(id, progressData) ==
  [id |-> id, status |-> "pending", issuedDate |-> 0, metadata |-> Unset,
   certificateNumber |-> Unset, verificationCode |-> Unset,
   performance |->
     [finalScore |-> Or(progressData.finalScore, 85), grade |-> "Pass",
      totalAssignments |-> Or(progressData.totalAssignments, 0),
      completedAssignments |-> Or(progressData.completedAssignments, 0),
      totalQuizzes |-> Or(progressData.totalQuizzes, 0),
      completedQuizzes |-> Or(progressData.completedQuizzes, 0),
      avgQuizScore |-> Or(progressData.avgQuizScore, 0),
      avgAssignmentScore |-> Or(progressData.avgAssignmentScore, 0)],
   analytics |-> [viewCount |-> 0, downloadCount |-> 0, verificationCount |-> 0]]

NoCertificate == NewCertificate(0, NoDoc)

\* certificateSchema.methods.generateCertificateNumber: CERT-<year><month>-<random>
generateCertificateNumber(c, random) ==
  [c EXCEPT !.certificateNumber = <<"CERT", random>>]

\* certificateSchema.methods.generateVerificationCode
generateVerificationCode(c, raw) ==
  [c EXCEPT !.verificationCode = toUpperCase(raw)]

\* certificateSchema.methods.issueCertificate up to its save()
issueCertificate(c, random, raw) ==
  LET c1 == [c EXCEPT !.status = "issued", !.issuedDate = now]
      c2 == IF c1.certificateNumber = Unset THEN generateCertificateNumber(c1, random)
            ELSE c1
  IN IF c2.verificationCode = Unset THEN generateVerificationCode(c2, raw) ELSE c2

\* the virtual overallPerformance
overallPerformance(c) ==
  WeightedScoreTable[c.performance.avgQuizScore, c.performance.avgAssignmentScore]

\* the grade of the pre('save') middleware
gradeOf(finalScore) ==
  IF finalScore >= 95 THEN "A+"
  ELSE IF finalScore >= 90 THEN "A"
  ELSE IF finalScore >= 85 THEN "A-"
  ELSE IF finalScore >= 80 THEN "B+"
  ELSE IF finalScore >= 75 THEN "B"
  ELSE IF finalScore >= 70 THEN "B-"
  ELSE IF finalScore >= 65 THEN "C+"
  ELSE IF finalScore >= 60 THEN "C"
  ELSE IF finalScore >= 55 THEN "C-"
  ELSE IF finalScore >= 50 THEN "D"
  ELSE "F"

\* the final score of the pre('save') middleware
preSaveScore(c) ==
  IF c.performance.finalScore = 0 /\ c.performance.avgQuizScore # 0
     /\ c.performance.avgAssignmentScore # 0
  THEN [c EXCEPT !.performance.finalScore = overallPerformance(c)]
  ELSE c

\* a middleware that leaves the grade as it finds it
preSaveNoGrade(c) == preSaveScore(c)

\* certificateSchema.pre('save')
preSave(c) ==
  [preSaveScore(c) EXCEPT !.performance.grade = gradeOf(preSaveScore(c).performance.finalScore)]

\* schema validators run by save(): min/max of the Number paths
certificateSchema(c) ==
  /\ c.performance.finalScore >= 0 /\ c.performance.finalScore <= 100
  /\ c.performance.avgQuizScore >= 0 /\ c.performance.avgQuizScore <= 100
  /\ c.performance.avgAssignmentScore >= 0 /\ c.performance.avgAssignmentScore <= 100

\* a save() that writes the whole document as the request holds it
saveCertificateWhole(cur, base, doc) ==
  [preSave(doc) EXCEPT !.metadata = cur.metadata]

\* the update save() sends for a loaded certificate: the pre('save')
\* middleware, then $set of the modified paths of the schema (metadata is
\* not a path of certificateSchema: what a method assigns to it stays on
\* the object in memory)
saveCertificate(cur, base, doc) ==
  LET d == preSave(doc) IN
  [id |-> cur.id,
   status |-> Pick(d.status, base.status, cur.status),
   issuedDate |-> Pick(d.issuedDate, base.issuedDate, cur.issuedDate),
   metadata |-> cur.metadata,
   certificateNumber |-> Pick(d.certificateNumber, base.certificateNumber,
                              cur.certificateNumber),
   verificationCode |-> Pick(d.verificationCode, base.verificationCode, cur.verificationCode),
   performance |->
     [f \in DOMAIN cur.performance |->
        Pick(d.performance[f], base.performance[f], cur.performance[f])],
   analytics |->
     [f \in DOMAIN cur.analytics |->
        Pick(d.analytics[f], base.analytics[f], cur.analytics[f])]]

\* a lookup that does not look at the status
verifyCertificateAnyStatus(verificationCode) ==
  {c \in certificates : c.verificationCode = toUpperCase(verificationCode)}

\* Certificate.verifyCertificate: findOne on the upper-cased code among the
\* issued certificates (isVerifiable is true on every certificate: no code
\* sets it)
verifyCertificateStatic(verificationCode) ==
  {c \in certificates :
     c.verificationCode = toUpperCase(verificationCode) /\ c.status = "issued"}

(* ---------------------- payments and submissions ------------------------ *)
Students == {"s1", "s2"}

\* the course document next to its modules: published, nobody enrolled
NewCourse(pricing) ==
  [status |-> "published", pricing |-> pricing, enrolledStudents |-> <<>>,
   stats |-> [totalEnrollments |-> 0, activeStudents |-> 0]]

InitCampus ==
  /\ payments = <<>>
  /\ courseDoc = NewCourse("paid")
  /\ users = [s \in Students |-> 0]
  /\ submissions = <<>>

(* --------------------------- request slots ----------------------------- *)
IdleReq ==
  [pc |-> "idle", op |-> "none", mod |-> "m1", les |-> "l1", t |-> 0,
   doc |-> NoDoc, base |-> NoDoc, where |-> FALSE, certErr |-> "none", cert |-> 0,
   loaded |-> NoCertificate, code |-> Unset]

Begin(op, m, l, t) ==
  [IdleReq EXCEPT !.op = op, !.mod = m, !.les = l, !.t = t]

\* again: a markLessonComplete repeated the request answered before it
\* (same parameters) and both were answered with status 200
NoLast ==
  [op |-> "none", mod |-> "m1", les |-> "l1", t |-> 0, certErr |-> "none", resp |-> 0,
   again |-> FALSE, code |-> Unset]

Repeats(rq) ==
  /\ last.op = rq.op /\ last.mod = rq.mod /\ last.les = rq.les /\ last.t = rq.t
  /\ last.resp = 200

\* the handler goes on to its next await
Goto(r, rq) ==
  /\ req' = [req EXCEPT ![r] = rq]
  /\ UNCHANGED last

\* res.status(code).json(...): the handler is over
Respond(r, rq, code) ==
  /\ req' = [req EXCEPT ![r] = IdleReq]
  /\ last' = [op |-> rq.op, mod |-> rq.mod, les |-> rq.les, t |-> rq.t,
              certErr |-> rq.certErr, resp |-> code,
              again |-> (code = 200 /\ rq.op = "markLessonComplete" /\ Repeats(rq)),
              code |-> rq.code]

TheProgress == CHOOSE d \in progressDocs : TRUE
TheCertificate == CHOOSE c \in certificates : TRUE

Init ==
  /\ progressDocs = {}
  /\ certificates = {}
  /\ course = [m \in Modules |-> IF m = "m1" THEN 1 ELSE MaxLessons]
  /\ now = 1
  /\ nextId = 1
  /\ req = [r \in Reqs |-> IdleReq]
  /\ last = NoLast
  /\ errs = {}
  /\ acked = {}
  /\ InitCampus

(* ----------------------- Progress Update Protocol ---------------------- *)
\* progressSchema.methods.updateProgress up to its first await: recompute
\* the derived fields, stamp the completion dates, decide on the trigger
updateProgress(rq, d0) ==
  LET d1 == [d0 EXCEPT !.overallProgress = calculateOverallProgress(d0),
                       !.completionPercentage = calculateCompletionPercentage(d0),
                       !.finalScore = calculateFinalScore(d0)]
      nowCompleted == d1.completionPercentage >= 100 /\ d1.completionDate = 0
      d2 == IF nowCompleted
            THEN [d1 EXCEPT !.completionDate = now, !.completedAt = now]
            ELSE d1
  IN [rq EXCEPT !.doc = d2,
                !.pc = IF nowCompleted /\ ~d1.certificateGenerated
                       THEN "cert_find" ELSE "save"]

\* a push that does not look whether the lesson is already in the array
pushAlways(lessons, l) == [lessons EXCEPT ![l] = @ + 1]

\* if (!module.completedLessons.includes(lessonId)) completedLessons.push(lessonId)
push(lessons, l) ==
  IF lessons[l] > 0 THEN lessons ELSE [lessons EXCEPT ![l] = @ + 1]

\* a handler that accounts the time of a lesson only when it adds the lesson
markLessonCompleteOnce(r, m, l, t) ==
  /\ req[r].pc = "idle"
  /\ UNCHANGED <<db, errs, acked>>
  /\ LET rq == Begin("markLessonComplete", m, l, t) IN
     IF progressDocs = {} \/ m \notin DOMAIN TheProgress.moduleProgress
     THEN Respond(r, rq, 404)
     ELSE LET p == TheProgress
              mp == p.moduleProgress[m]
              dt == IF mp.completedLessons[l] > 0 THEN 0 ELSE t
              d == [p EXCEPT
                      !.moduleProgress[m].completedLessons = push(mp.completedLessons, l),
                      !.moduleProgress[m].timeSpent = mp.timeSpent + dt,
                      !.totalTimeSpent = p.totalTimeSpent + dt]
          IN Goto(r, [rq EXCEPT !.pc = "course", !.doc = d, !.base = p, !.where = TRUE])

\* markLessonComplete: Progress.findOne, module lookup, push of the lesson,
\* time accounting (up to the await on Course.findById)
markLessonComplete(r, m, l, t) ==
  /\ req[r].pc = "idle"
  /\ UNCHANGED <<db, errs, acked>>
  /\ LET rq == Begin("markLessonComplete", m, l, t) IN
     IF progressDocs = {} \/ m \notin DOMAIN TheProgress.moduleProgress
     THEN Respond(r, rq, 404)
     ELSE LET p == TheProgress
              mp == p.moduleProgress[m]
              d == [p EXCEPT
                      !.moduleProgress[m].completedLessons = push(mp.completedLessons, l),
                      !.moduleProgress[m].timeSpent = mp.timeSpent + t,
                      !.totalTimeSpent = p.totalTimeSpent + t]
          IN Goto(r, [rq EXCEPT !.pc = "course", !.doc = d, !.base = p, !.where = TRUE])

\* a check that does not look whether the course still has the module
markLessonCourseAnyModule(r, found) ==
  /\ req[r].pc = "course"
  /\ UNCHANGED <<db, errs, acked>>
  /\ IF ~found
     THEN Respond(r, req[r], 500)
     ELSE LET rq == req[r]
              m == rq.mod
              flip == Length(rq.doc.moduleProgress[m].completedLessons) >= course[m]
              d == IF flip THEN [rq.doc EXCEPT !.moduleProgress[m].completed = TRUE]
                   ELSE rq.doc
          IN Goto(r, updateProgress(rq, d))

\* markLessonComplete after Course.findById: flip the module when the
\* course declares no more lessons than were completed, then updateProgress
markLessonCourse(r, found) ==
  /\ req[r].pc = "course"
  /\ UNCHANGED <<db, errs, acked>>
  /\ IF ~found
     THEN Respond(r, req[r], 500)
     ELSE LET rq == req[r]
              m == rq.mod
              flip == course[m] # Absent
                      /\ Length(rq.doc.moduleProgress[m].completedLessons) >= course[m]
              d == IF flip THEN [rq.doc EXCEPT !.moduleProgress[m].completed = TRUE]
                   ELSE rq.doc
          IN Goto(r, updateProgress(rq, d))

\* markModuleComplete: force the module's completed flag, then updateProgress
markModuleComplete(r, m) ==
  /\ req[r].pc = "idle"
  /\ UNCHANGED <<db, errs, acked>>
  /\ LET rq == Begin("markModuleComplete", m, "l1", 0) IN
     IF progressDocs = {} \/ m \notin DOMAIN TheProgress.moduleProgress
     THEN Respond(r, rq, 404)
     ELSE LET p == TheProgress
              d == [p EXCEPT !.moduleProgress[m].completed = TRUE]
          IN Goto(r, updateProgress([rq EXCEPT !.base = p, !.where = TRUE], d))

\* addTimeSpent: validate minutes, load, add to the module (when it is in
\* the record) and to the record total (up to the await on save)
addTimeSpent(r, m, t) ==
  /\ req[r].pc = "idle"
  /\ UNCHANGED <<db, errs, acked>>
  /\ LET rq == Begin("addTimeSpent", m, "l1", t) IN
     IF t <= 0 THEN Respond(r, rq, 400)
     ELSE IF progressDocs = {} THEN Respond(r, rq, 404)
     ELSE LET p == TheProgress
              inRecord == m \in DOMAIN p.moduleProgress
              d1 == IF inRecord
                    THEN [p EXCEPT !.moduleProgress[m].timeSpent = @ + t]
                    ELSE p
              d == [d1 EXCEPT !.totalTimeSpent = @ + t]
          IN Goto(r, [rq EXCEPT !.pc = "save", !.doc = d, !.base = p,
                                !.where = inRecord])

\* updateStudentScores: plain setters of the assessment counters followed
\* by updateProgress
updateStudentScores(r, in) ==
  /\ req[r].pc = "idle"
  /\ UNCHANGED <<db, errs, acked>>
  /\ LET rq == Begin("updateStudentScores", "m1", "l1", 0) IN
     IF progressDocs = {} THEN Respond(r, rq, 404)
     ELSE LET p == TheProgress
              d == [p EXCEPT !.totalAssignments = in.ta, !.completedAssignments = in.ca,
                             !.totalQuizzes = in.tq, !.completedQuizzes = in.cq,
                             !.avgQuizScore = in.qs, !.avgAssignmentScore = in.as]
          IN Goto(r, updateProgress([rq EXCEPT !.base = p], d))

(* --------------------- Certificate Issuance Trigger -------------------- *)
\* a link that forgets the guard flag
LinkNoFlag(rq, id) ==
  [rq EXCEPT !.doc.certificateEarned = id, !.pc = "save"]

\* what updateProgress does with the certificate autoGenerateCertificate returned
Link(rq, id) ==
  [rq EXCEPT !.doc.certificateEarned = id, !.doc.certificateGenerated = TRUE,
             !.pc = "save"]

\* an updateProgress that lets the error of autoGenerateCertificate escape
\* to the handler's catch
Rethrow(r, why) ==
  /\ Respond(r, [req[r] EXCEPT !.certErr = why], 500)
  /\ errs' = errs \cup {why}

\* what updateProgress does when autoGenerateCertificate throws: log, go on
Swallow(r, why) ==
  /\ Goto(r, [req[r] EXCEPT !.certErr = why, !.pc = "save"])
  /\ errs' = errs \cup {why}

\* autoGenerateCertificate: Certificate.findOne({student, course})
autoGenerateFind(r) ==
  /\ req[r].pc = "cert_find"
  /\ UNCHANGED <<db, errs, acked>>
  /\ IF certificates # {} THEN Goto(r, Link(req[r], TheCertificate.id))
     ELSE Goto(r, [req[r] EXCEPT !.pc = "cert_lookup"])

\* autoGenerateCertificate: Course.findById and User.findById
autoGenerateLookup(r, found) ==
  /\ req[r].pc = "cert_lookup"
  /\ UNCHANGED <<db, acked>>
  /\ IF found THEN Goto(r, [req[r] EXCEPT !.pc = "cert_issue"]) /\ UNCHANGED errs
     ELSE Swallow(r, "lookup")

\* an insert that no unique index guards
insertCertificateNoIndex(c) ==
  IF ~certificateSchema(c) THEN certificates
  ELSE certificates \cup {preSave(c)}

\* the save() of a new certificate: validation, the pre('save') middleware
\* and the insert, which the unique (student, course) index rejects for a
\* second certificate of the pair
insertCertificate(c) ==
  IF ~certificateSchema(c) \/ certificates # {} THEN certificates
  ELSE certificates \cup {preSave(c)}

\* new Certificate(...), generateVerificationCode(), generateCertificateNumber()
\* and issueCertificate() up to its save()
Issued(id, progressData, random, raw) ==
  issueCertificate(
    generateCertificateNumber(
      generateVerificationCode(NewCertificate(id, progressData), raw), random),
    random, raw)

\* a trigger that links the new document although its save() was rejected
autoGenerateIssueUnsaved(r, random, raw) ==
  /\ req[r].pc = "cert_issue"
  /\ UNCHANGED <<progressDocs, course, now, acked, errs, campus>>
  /\ certificates' = insertCertificate(Issued(nextId, req[r].doc, random, raw))
  /\ nextId' = nextId + 1
  /\ Goto(r, Link([req[r] EXCEPT !.cert = nextId], nextId))

\* autoGenerateCertificate: issueCertificate() and return to updateProgress
autoGenerateIssue(r, random, raw) ==
  /\ req[r].pc = "cert_issue"
  /\ UNCHANGED <<progressDocs, course, now, acked, campus>>
  /\ certificates' = insertCertificate(Issued(nextId, req[r].doc, random, raw))
  /\ IF certificates' # certificates
     THEN /\ nextId' = nextId + 1
          /\ Goto(r, Link([req[r] EXCEPT !.cert = nextId], nextId))
          /\ UNCHANGED errs
     ELSE /\ nextId' = nextId
          /\ Swallow(r, "duplicate")

\* what a successful response acknowledges to the caller
Ack(rq) ==
  IF rq.op = "markLessonComplete" THEN {<<rq.mod, rq.les>>}
  ELSE IF rq.op = "markModuleComplete" THEN {<<rq.mod, "module">>}
  ELSE {}

\* return this.save() of updateProgress / await progress.save() of
\* addTimeSpent, and the handler's response
saveProgress(r) ==
  /\ req[r].pc = "save"
  /\ UNCHANGED <<certificates, course, now, nextId, errs, campus>>
  /\ LET rq == req[r]
         cur == TheProgress
         ok == progressSchema(rq.doc) /\ (rq.where => cur.v = rq.base.v)
     IN IF ok
        THEN /\ progressDocs' = {save(cur, rq.base, rq.doc)}
             /\ acked' = acked \cup Ack(rq)
             /\ Respond(r, rq, 200)
        ELSE /\ UNCHANGED <<progressDocs, acked>>
             /\ Respond(r, rq, 500)

(* --------------------------- other handlers ---------------------------- *)
\* createProgressRecord: Course.findById, Progress.findOne, module snapshot
createProgressRecord(r, found) ==
  /\ req[r].pc = "idle"
  /\ UNCHANGED <<db, errs, acked>>
  /\ LET rq == Begin("createProgressRecord", "m1", "l1", 0) IN
     IF ~found THEN Respond(r, rq, 404)
     ELSE IF progressDocs # {} THEN Respond(r, rq, 400)
     ELSE Goto(r, [rq EXCEPT !.pc = "create",
                             !.doc = NewProgress({m \in Modules : course[m] # Absent})])

\* createProgressRecord: progress.save() of the new document; the unique
\* (student, course) index rejects a second record
createProgressInsert(r) ==
  /\ req[r].pc = "create"
  /\ UNCHANGED <<certificates, course, now, nextId, errs, acked, campus>>
  /\ IF progressDocs = {}
     THEN progressDocs' = {req[r].doc} /\ Respond(r, req[r], 201)
     ELSE UNCHANGED progressDocs /\ Respond(r, req[r], 500)

\* generateCertificate: Certificate.findOne({student, course})
generateCertificate(r) ==
  /\ req[r].pc = "idle"
  /\ UNCHANGED <<db, errs, acked>>
  /\ LET rq == Begin("generateCertificate", "m1", "l1", 0) IN
     IF certificates # {} THEN Respond(r, rq, 400)
     ELSE Goto(r, [rq EXCEPT !.pc = "gen_lookup"])

\* generateCertificate: Course.findById, User.findById and
\* Progress.findOne({user: studentId, course: courseId}).  The schema has
\* no path "user": depending on the strictQuery setting of the Mongoose
\* build the filter matches no record, or matches on the course alone.
generateLookup(r, found, matched) ==
  /\ req[r].pc = "gen_lookup"
  /\ UNCHANGED <<db, errs, acked>>
  /\ IF ~found THEN Respond(r, req[r], 404)
     ELSE IF ~matched \/ progressDocs = {} \/ TheProgress.completionPercentage < 100
     THEN Respond(r, req[r], 400)
     ELSE Goto(r, [req[r] EXCEPT !.pc = "gen_issue", !.doc = TheProgress])

\* generateCertificate: issueCertificate(), findById, response
generateIssue(r, random, raw) ==
  /\ req[r].pc = "gen_issue"
  /\ UNCHANGED <<progressDocs, course, now, errs, acked, campus>>
  /\ certificates' = insertCertificate(Issued(nextId, req[r].doc, random, raw))
  /\ IF certificates' # certificates
     THEN nextId' = nextId + 1 /\ Respond(r, [req[r] EXCEPT !.cert = nextId], 201)
     ELSE nextId' = nextId /\ Respond(r, req[r], 500)

\* the save() of a loaded certificate and the handler's response
certificateSave(r, pc, doc) ==
  /\ req[r].pc = pc
  /\ UNCHANGED <<progressDocs, course, now, nextId, errs, acked, campus>>
  /\ certificates' = {IF c.id = req[r].cert THEN saveCertificate(c, req[r].loaded, doc) ELSE c
                      : c \in certificates}
  /\ Respond(r, req[r], 200)

\* a certificate handler up to its save(): Certificate.findById, the
\* authorization check where the handler has one
certificateLoad(r, op, pc, id, authorized) ==
  /\ req[r].pc = "idle"
  /\ UNCHANGED <<db, errs, acked>>
  /\ LET rq == Begin(op, "m1", "l1", 0) IN
     IF \A c \in certificates : c.id # id THEN Respond(r, rq, 404)
     ELSE IF ~authorized THEN Respond(r, rq, 403)
     ELSE LET c == CHOOSE x \in certificates : x.id = id
          IN Goto(r, [rq EXCEPT !.pc = pc, !.cert = id, !.loaded = c])

\* revokeCertificate: Certificate.findById and the authorization check
revokeCertificate(r, id, authorized) ==
  certificateLoad(r, "revokeCertificate", "revoke", id, authorized)

\* certificateSchema.methods.revokeCertificate: status = 'revoked',
\* metadata = {...metadata, revocationReason, revokedAt}, save()
revokeSave(r) ==
  certificateSave(r, "revoke",
    [req[r].loaded EXCEPT !.status = "revoked",
                          !.metadata = [revocationReason |-> "reason", revokedAt |-> now]])

\* the analytics counter of certificate id, 0 when there is none
Count(id, counter) ==
  IF \E c \in certificates : c.id = id
  THEN (CHOOSE c \in certificates : c.id = id).analytics[counter]
  ELSE 0

\* getCertificate: Certificate.findById
getCertificate(r, id) ==
  certificateLoad(r, "getCertificate", "view", id, TRUE)

\* a trackView that generates the verification code again
trackViewRegenerate(r) ==
  certificateSave(r, "view",
    generateVerificationCode([req[r].loaded EXCEPT !.analytics.viewCount = @ + 1],
                             <<"b", "1">>))

\* certificateSchema.methods.trackView
trackView(r) ==
  certificateSave(r, "view", [req[r].loaded EXCEPT !.analytics.viewCount = @ + 1])

\* downloadCertificate: Certificate.findById, authorization check
downloadCertificate(r, id, authorized) ==
  certificateLoad(r, "downloadCertificate", "download", id, authorized)

\* certificateSchema.methods.trackDownload
trackDownload(r) ==
  certificateSave(r, "download", [req[r].loaded EXCEPT !.analytics.downloadCount = @ + 1])

\* the certificates a verification would count stay below the cap
Verifiable(verificationCode, cap) ==
  \A c \in verifyCertificateStatic(verificationCode) : c.analytics.verificationCount < cap

\* verifyCertificate: Certificate.verifyCertificate(verificationCode)
verifyCertificate(r, verificationCode) ==
  /\ req[r].pc = "idle"
  /\ UNCHANGED <<db, errs, acked>>
  /\ LET rq == [Begin("verifyCertificate", "m1", "l1", 0) EXCEPT !.code = verificationCode]
         hits == verifyCertificateStatic(verificationCode)
     IN IF hits = {} THEN Respond(r, rq, 404)
        ELSE LET c == CHOOSE x \in hits : TRUE
             IN Goto(r, [rq EXCEPT !.pc = "verify", !.cert = c.id, !.loaded = c])

\* verifyCertificate: analytics.verificationCount += 1, save(), the summary
verifySave(r) ==
  certificateSave(r, "verify", [req[r].loaded EXCEPT !.analytics.verificationCount = @ + 1])

\* a caller of certificate.issueCertificate() on a stored certificate:
\* the document is loaded first
issueAgain(r, id) ==
  certificateLoad(r, "issueCertificate", "issue", id, TRUE)

\* certificateSchema.methods.issueCertificate on the loaded document, with
\* its save()
issueSave(r, random, raw) ==
  certificateSave(r, "issue", issueCertificate(req[r].loaded, random, raw))

\* t more minutes keep the persisted total of the record within the cap
TimeLeft(t, cap) ==
  \A p \in progressDocs : p.totalTimeSpent + t <= cap

\* updateCourse: Course.findByIdAndUpdate replaces the module structure
updateCourse(cfg) ==
  /\ cfg # course
  /\ course' = cfg
  /\ last' = [NoLast EXCEPT !.op = "updateCourse"]
  /\ UNCHANGED <<progressDocs, certificates, now, nextId, req, errs, acked, campus>>

\* the wall clock read by new Date()
Tick ==
  /\ now < MaxClock
  /\ now' = now + 1
  /\ UNCHANGED <<progressDocs, certificates, course, nextId, req, last, errs, acked, campus>>

\* payloads of updateStudentScores: no, all, or more than all assignments
\* completed; no quizzes or all of them completed; the averages both 0,
\* or both at their maximum on a record without assessments
ScoreInputs ==
  {in \in [ta : 0..MaxCount, ca : 0..(MaxCount + 1), tq : {0, MaxCount}, cq : {0, MaxCount},
           qs : ScoreValues, as : ScoreValues] :
     /\ in.tq = in.cq /\ in.ca \in {0, in.ta, in.ta + 1}
     /\ in.qs = in.as /\ (in.qs # 0 => in.ta = 0 /\ in.ca = 0 /\ in.tq = 0)}

Trigger(r) ==
  \/ autoGenerateFind(r)
  \/ \E found \in BOOLEAN : autoGenerateLookup(r, found)
  \/ \E random \in Randoms, raw \in OneCode : autoGenerateIssue(r, random, raw)

Manual(r) ==
  \/ generateCertificate(r)
  \/ \E found \in BOOLEAN, matched \in BOOLEAN : generateLookup(r, found, matched)
  \/ \E random \in Randoms, raw \in OneCode : generateIssue(r, random, raw)
  \/ \E id \in 1..nextId, authorized \in BOOLEAN : revokeCertificate(r, id, authorized)
  \/ revokeSave(r)

Create(r) ==
  \/ \E found \in BOOLEAN : createProgressRecord(r, found)
  \/ createProgressInsert(r)

\* concurrent requests of the completion endpoints and of manual issuance;
\* the course is not edited meanwhile
Next ==
  \E r \in Reqs :
    \/ Create(r)
    \/ \E m \in Modules : markLessonComplete(r, m, "l1", 0)
    \/ markLessonCourse(r, TRUE)
    \/ \E m \in Modules : markModuleComplete(r, m)
    \/ Trigger(r)
    \/ saveProgress(r)
    \/ generateCertificate(r)
    \/ \E found \in BOOLEAN, matched \in BOOLEAN : generateLookup(r, found, matched)
    \/ \E random \in Randoms, raw \in OneCode : generateIssue(r, random, raw)

Spec == Init /\ [][Next]_vars

\* requests are served one at a time: a handler runs to its response
\* before the next one starts
NextSerial ==
  \E r \in {"r1"} :
    \/ Create(r)
    \/ \E m \in Modules, l \in LessonIds, t \in 0..1 :
         TimeLeft(t, MaxMinutes) /\ markLessonComplete(r, m, l, t)
    \/ \E found \in BOOLEAN : markLessonCourse(r, found)
    \/ \E m \in Modules : markModuleComplete(r, m)
    \/ \E m \in Modules, t \in 0..1 :
         TimeLeft(t, MaxMinutes) /\ addTimeSpent(r, m, t)
    \/ Trigger(r)
    \/ saveProgress(r)
    \/ Manual(r)

SpecSerial == Init /\ [][NextSerial]_vars

\* serial requests that set the assessment counters and complete modules
NextScores ==
  \E r \in {"r1"} :
    \/ Create(r)
    \/ \E in \in ScoreInputs : updateStudentScores(r, in)
    \/ \E m \in Modules : markLessonComplete(r, m, "l1", 0)
    \/ markLessonCourse(r, TRUE)
    \/ \E m \in Modules : markModuleComplete(r, m)
    \/ Trigger(r)
    \/ saveProgress(r)

SpecScores == Init /\ [][NextScores]_vars

\* serial lesson completions while the instructor edits the course and
\* time passes
NextCourse ==
  \/ \E r \in {"r1"} :
       \/ Create(r)
       \/ \E m \in Modules, l \in LessonIds : markLessonComplete(r, m, l, 0)
       \/ \E found \in BOOLEAN : markLessonCourse(r, found)
       \/ Trigger(r)
       \/ saveProgress(r)
  \/ \E cfg \in CourseConfigs : updateCourse(cfg)
  \/ Tick

SpecCourse == Init /\ [][NextCourse]_vars

\* concurrent module completions while time passes
NextDates ==
  \/ \E r \in Reqs :
       \/ Create(r)
       \/ \E m \in Modules : markModuleComplete(r, m)
       \/ Trigger(r)
       \/ saveProgress(r)
  \/ Tick

SpecDates == Init /\ [][NextDates]_vars

(* ------------------- records of any size, one update ------------------- *)
\* assessment counters as the assessment subsystems can have left them
NoCounters == [ta |-> 0, ca |-> 0, tq |-> 0, cq |-> 0, qs |-> 0, as |-> 0]

CountersOf(doc) ==
  [ta |-> doc.totalAssignments, ca |-> doc.completedAssignments,
   tq |-> doc.totalQuizzes, cq |-> doc.completedQuizzes,
   qs |-> doc.avgQuizScore, as |-> doc.avgAssignmentScore]

\* a record of n modules (ids 1..n), the first c of them completed, with
\* the given counters, as its last progress update left it
Snapshot(n, c, in) ==
  LET d == [NewProgress(1..n) EXCEPT
              !.moduleProgress = [m \in 1..n |-> [NewModule EXCEPT !.completed = (m <= c)]],
              !.totalAssignments = in.ta, !.completedAssignments = in.ca,
              !.totalQuizzes = in.tq, !.completedQuizzes = in.cq,
              !.avgQuizScore = in.qs, !.avgAssignmentScore = in.as]
  IN [d EXCEPT !.overallProgress = calculateOverallProgress(d),
               !.completionPercentage = calculateCompletionPercentage(d),
               !.finalScore = calculateFinalScore(d)]

\* records that track modules only, and records of one module that track
\* assignments and quizzes; none of them has reached 100 yet
ModuleSnapshots ==
  {Snapshot(x[1], x[2], NoCounters) :
     x \in {y \in (0..MaxItems) \X (0..MaxItems) : y[2] < y[1] \/ y = <<0, 0>>}}

CounterInputs ==
  {in \in [ta : 0..(MaxItems - 1), ca : 0..MaxItems, tq : {0}, cq : {0, 1},
           qs : {0}, as : {0}] : in.ca <= in.ta + 1}

\* records of one module with every pair of average scores
ScoreSnapshots ==
  {Snapshot(1, 0, [NoCounters EXCEPT !.qs = x[1], !.as = x[2]]) :
     x \in (0..MaxScore) \X (0..MaxScore)}

CalcSnapshots ==
  ModuleSnapshots \cup ScoreSnapshots
  \cup {d \in {Snapshot(1, 0, in) : in \in CounterInputs} : d.completionPercentage < 100}

InitCalc ==
  /\ progressDocs \in {{d} : d \in CalcSnapshots}
  /\ certificates = {}
  /\ course = [m \in Modules |-> IF m = "m1" THEN 1 ELSE MaxLessons]
  /\ now = 1
  /\ nextId = 1
  /\ req = [r \in Reqs |-> IdleReq]
  /\ last = NoLast
  /\ errs = {}
  /\ acked = {}
  /\ InitCampus

\* one request at a time: the next module of the record is completed, or
\* the scores are submitted again; the certificate issued is viewed
NextCalc ==
  \E r \in {"r1"} :
    \/ markModuleComplete(r, Cardinality(CompletedModules(TheProgress)) + 1)
    \/ updateStudentScores(r, CountersOf(TheProgress))
    \/ Trigger(r)
    \/ saveProgress(r)
    \/ \E c \in certificates :
         c.analytics.viewCount < MaxViews /\ getCertificate(r, c.id)
    \/ trackView(r)

SpecCalc == InitCalc /\ [][NextCalc]_vars

(* ------------------- certificates of scored records -------------------- *)
\* averages whose final score is the placeholder, falls on either side of
\* the lowest and the highest step of the grade table, or is the maximum
CertScores == {0, 49, 50, 92, 94, 95, MaxScore}

\* records of one module, not completed yet, whose averages are equal or
\* whose assignments average is 0; records with assessments, all completed
CertSnapshots ==
  {Snapshot(1, 0, [NoCounters EXCEPT !.qs = x[1], !.as = x[2]]) :
     x \in {y \in (0..MaxScore) \X (0..MaxScore) :
              \/ y[2] = y[1] /\ y[1] \in CertScores
              \/ y[2] = 0 /\ y[1] = 1}}
  \cup {Snapshot(1, 0, [ta |-> 1, ca |-> 1, tq |-> x, cq |-> x, qs |-> MaxScore, as |-> MaxScore]) :
          x \in 0..1}

\* the averages submitted after the certificate was issued
LaterScores == {[NoCounters EXCEPT !.ta = 1, !.ca = 1, !.qs = 50, !.as = 50]}

InitCert ==
  /\ progressDocs \in {{d} : d \in CertSnapshots}
  /\ certificates = {}
  /\ course = [m \in Modules |-> IF m = "m1" THEN 1 ELSE MaxLessons]
  /\ now = 1
  /\ nextId = 1
  /\ req = [r \in Reqs |-> IdleReq]
  /\ last = NoLast
  /\ errs = {}
  /\ acked = {}
  /\ InitCampus

\* one request at a time: the module is completed, the certificate is
\* issued by the trigger or by hand, then viewed, downloaded, verified and
\* revoked while new scores arrive
NextCert ==
  \E r \in {"r1"} :
    \/ markModuleComplete(r, 1)
    \/ \E in \in LaterScores : updateStudentScores(r, in)
    \/ autoGenerateFind(r)
    \/ \E found \in BOOLEAN : autoGenerateLookup(r, found)
    \/ \E random \in Randoms, raw \in RawCodes : autoGenerateIssue(r, random, raw)
    \/ saveProgress(r)
    \/ generateCertificate(r)
    \/ \E found \in BOOLEAN, matched \in BOOLEAN : generateLookup(r, found, matched)
    \/ \E random \in Randoms, raw \in RawCodes : generateIssue(r, random, raw)
    \/ \E id \in 1..nextId : Count(id, "viewCount") < MaxViews /\ getCertificate(r, id)
    \/ trackView(r)
    \/ \E id \in 1..nextId, authorized \in BOOLEAN :
         Count(id, "downloadCount") < MaxViews /\ downloadCertificate(r, id, authorized)
    \/ trackDownload(r)
    \/ \E code \in VerifyInputs : Verifiable(code, MaxViews) /\ verifyCertificate(r, code)
    \/ verifySave(r)
    \/ \E id \in 1..nextId, authorized \in BOOLEAN : revokeCertificate(r, id, authorized)
    \/ revokeSave(r)

SpecCert == InitCert /\ [][NextCert]_vars

(* ------------------ concurrent requests on a certificate --------------- *)
InitRace ==
  /\ progressDocs = {Snapshot(1, 0, NoCounters)}
  /\ certificates = {}
  /\ course = [m \in Modules |-> IF m = "m1" THEN 1 ELSE MaxLessons]
  /\ now = 1
  /\ nextId = 1
  /\ req = [r \in Reqs |-> IdleReq]
  /\ last = NoLast
  /\ errs = {}
  /\ acked = {}
  /\ InitCampus

\* overlapping requests: the module is completed, the certificate is issued
\* by the trigger or by hand, viewed, downloaded, verified and revoked
NextRace ==
  \E r \in Reqs :
    \/ markModuleComplete(r, 1)
    \/ Trigger(r)
    \/ saveProgress(r)
    \/ generateCertificate(r)
    \/ generateLookup(r, TRUE, TRUE)
    \/ \E random \in Randoms, raw \in OneCode : generateIssue(r, random, raw)
    \/ \E c \in certificates :
         c.analytics.viewCount < MaxViews /\ getCertificate(r, c.id)
    \/ trackView(r)
    \/ \E code \in {<<"a", "1">>} :
         Verifiable(code, MaxViews) /\ verifyCertificate(r, code)
    \/ verifySave(r)
    \/ \E c \in certificates :
         c.analytics.downloadCount < MaxViews /\ downloadCertificate(r, c.id, TRUE)
    \/ trackDownload(r)
    \/ \E c \in certificates : revokeCertificate(r, c.id, TRUE)
    \/ revokeSave(r)

SpecRace == InitRace /\ [][NextRace]_vars

(* ------------------ issueCertificate on stored certificates ------------ *)
\* one request at a time: the module is completed and the trigger issues the
\* certificate; later, issueCertificate() is called on it again
NextIssue ==
  \/ \E r \in {"r1"} :
       \/ markModuleComplete(r, 1)
       \/ Trigger(r)
       \/ saveProgress(r)
       \/ \E c \in certificates : issueAgain(r, c.id)
       \/ \E random \in Randoms, raw \in RawCodes : issueSave(r, random, raw)
  \/ Tick

SpecIssue == InitCert /\ [][NextIssue]_vars

(* ------------------ concurrent readers of a certificate ---------------- *)
\* the record after the update that completed its only module and linked
\* certificate 1
LinkedRecord ==
  [Snapshot(1, 1, NoCounters) EXCEPT !.completionDate = 1, !.completedAt = 1,
                                     !.certificateEarned = 1,
                                     !.certificateGenerated = TRUE]

\* the certificate of the record has been issued
InitCounters ==
  /\ progressDocs = {LinkedRecord}
  /\ now = 1
  /\ certificates = {preSave(Issued(1, LinkedRecord, 7, <<"a", "1">>))}
  /\ course = [m \in Modules |-> IF m = "m1" THEN 1 ELSE MaxLessons]
  /\ nextId = 2
  /\ req = [r \in Reqs |-> IdleReq]
  /\ last = NoLast
  /\ errs = {}
  /\ acked = {}
  /\ InitCampus

\* overlapping getCertificate, downloadCertificate and verifyCertificate
\* requests: each loads the certificate, adds 1 to its counter and saves
NextCounters ==
  \E r \in Reqs :
    \/ \E c \in certificates :
         c.analytics.viewCount <= MaxViews /\ getCertificate(r, c.id)
    \/ trackView(r)
    \/ \E c \in certificates :
         c.analytics.downloadCount <= MaxViews /\ downloadCertificate(r, c.id, TRUE)
    \/ trackDownload(r)
    \/ \E code \in OneCode :
         Verifiable(code, MaxViews + 1) /\ verifyCertificate(r, code)
    \/ verifySave(r)

SpecCounters == InitCounters /\ [][NextCounters]_vars

(* ----------------- completions while the course is edited -------------- *)
\* one request at a time: lessons and modules are completed while the
\* instructor edits the course, one module per edit
NextLessons ==
  \/ \E r \in {"r1"} :
       \/ Create(r)
       \/ \E m \in Modules, l \in LessonIds : markLessonComplete(r, m, l, 0)
       \/ \E found \in BOOLEAN : markLessonCourse(r, found)
       \/ \E m \in Modules : markModuleComplete(r, m)
       \/ Trigger(r)
       \/ saveProgress(r)
  \/ \E m \in Modules, n \in {Absent} \cup 1..MaxLessons :
       updateCourse([course EXCEPT ![m] = n])

SpecLessons == Init /\ [][NextLessons]_vars

(* ------------------- lesson completions with time spent ---------------- *)
\* one request at a time: the record is created, then lessons are marked
\* complete again and again, with or without minutes
NextTime ==
  \E r \in {"r1"} :
    \/ Create(r)
    \/ \E m \in Modules, l \in LessonIds, t \in 0..1 :
         TimeLeft(t, MaxMinutes + 2) /\ markLessonComplete(r, m, l, t)
    \/ \E found \in BOOLEAN : markLessonCourse(r, found)
    \/ Trigger(r)
    \/ saveProgress(r)

SpecTime == Init /\ [][NextTime]_vars

(* ------------------------ payments and enrolment ----------------------- *)
\* what the handlers of this section leave alone
core == <<progressDocs, certificates, course, nextId, req, errs, acked>>

\* res.status(code).json(...) of a handler that runs without a request slot
Answer(op, code) ==
  last' = [NoLast EXCEPT !.op = op, !.resp = code]

\* course.enrolledStudents.some(enrollment => enrollment.student == s)
isAlreadyEnrolled(s) ==
  \E i \in DOMAIN courseDoc.enrolledStudents : courseDoc.enrolledStudents[i] = s

\* course.enrolledStudents.push(...), stats.totalEnrollments += 1,
\* stats.activeStudents += 1, course.save(); user.enrolledCourses.push(...),
\* user.save()
Enroll(s) ==
  /\ courseDoc' = [courseDoc EXCEPT !.enrolledStudents = Append(@, s),
                                    !.stats.totalEnrollments = @ + 1,
                                    !.stats.activeStudents = @ + 1]
  /\ users' = [users EXCEPT ![s] = @ + 1]

\* new Payment({user, course, status, completedAt})
NewPayment(s, status, completedAt) ==
  [user |-> s, status |-> status, completedAt |-> completedAt, isRefunded |-> FALSE]

\* initiatePayment
initiatePayment(s) ==
  /\ UNCHANGED <<core, now, courseDoc, users, submissions>>
  /\ IF courseDoc.pricing = "free" \/ isAlreadyEnrolled(s)
     THEN UNCHANGED payments /\ Answer("initiatePayment", 400)
     ELSE /\ payments' = Append(payments, NewPayment(s, "pending", 0))
          /\ Answer("initiatePayment", 201)

\* processPayment: Payment.findOne({paymentId}), status check, then the
\* gateway outcome
processPayment(paymentId, success) ==
  /\ UNCHANGED <<core, now, submissions>>
  /\ IF paymentId \notin DOMAIN payments
     THEN UNCHANGED <<payments, courseDoc, users>> /\ Answer("processPayment", 404)
     ELSE IF payments[paymentId].status # "pending"
     THEN UNCHANGED <<payments, courseDoc, users>> /\ Answer("processPayment", 400)
     ELSE IF success
     THEN /\ payments' = [payments EXCEPT ![paymentId].status = "completed",
                                          ![paymentId].completedAt = now]
          /\ Enroll(payments[paymentId].user)
          /\ Answer("processPayment", 200)
     ELSE /\ payments' = [payments EXCEPT ![paymentId].status = "failed"]
          /\ UNCHANGED <<courseDoc, users>>
          /\ Answer("processPayment", 400)

\* enrollInFreeCourse
enrollInFreeCourse(s) ==
  /\ UNCHANGED <<core, now, submissions>>
  /\ IF courseDoc.pricing # "free" \/ isAlreadyEnrolled(s)
     THEN UNCHANGED <<payments, courseDoc, users>> /\ Answer("enrollInFreeCourse", 400)
     ELSE /\ payments' = Append(payments, NewPayment(s, "completed", now))
          /\ Enroll(s)
          /\ Answer("enrollInFreeCourse", 200)

\* enrollInCourse of the course controller
enrollInCourse(s) ==
  /\ UNCHANGED <<core, now, payments, submissions>>
  /\ IF courseDoc.status # "published" \/ isAlreadyEnrolled(s)
     THEN UNCHANGED <<courseDoc, users>> /\ Answer("enrollInCourse", 400)
     ELSE Enroll(s) /\ Answer("enrollInCourse", 200)

\* requestRefund: Payment.findOne({paymentId, user})
requestRefund(paymentId, s) ==
  /\ UNCHANGED <<core, now, courseDoc, users, submissions>>
  /\ IF paymentId \notin DOMAIN payments \/ payments[paymentId].user # s
     THEN UNCHANGED payments /\ Answer("requestRefund", 404)
     ELSE IF payments[paymentId].status # "completed" \/ payments[paymentId].isRefunded
     THEN UNCHANGED payments /\ Answer("requestRefund", 400)
     ELSE /\ payments' = [payments EXCEPT ![paymentId].status = "pending"]
          /\ Answer("requestRefund", 200)

\* processRefund (admin) with paymentSchema.methods.processRefund
processRefund(paymentId, full) ==
  /\ UNCHANGED <<core, now, courseDoc, users, submissions>>
  /\ IF paymentId \notin DOMAIN payments
     THEN UNCHANGED payments /\ Answer("processRefund", 404)
     ELSE IF payments[paymentId].status # "completed"
     THEN UNCHANGED payments /\ Answer("processRefund", 400)
     ELSE /\ payments' = [payments EXCEPT
                            ![paymentId].isRefunded = TRUE,
                            ![paymentId].status =
                               IF full THEN "refunded" ELSE "partially_refunded"]
          /\ Answer("processRefund", 200)

\* a course of either pricing, in draft or published
InitPayments ==
  /\ progressDocs = {}
  /\ certificates = {}
  /\ course = [m \in Modules |-> IF m = "m1" THEN 1 ELSE MaxLessons]
  /\ now = 1
  /\ nextId = 1
  /\ req = [r \in Reqs |-> IdleReq]
  /\ last = NoLast
  /\ errs = {}
  /\ acked = {}
  /\ payments = <<>>
  /\ courseDoc \in {[NewCourse(pricing) EXCEPT !.status = status] :
                      pricing \in {"free", "paid"}, status \in {"draft", "published"}}
  /\ users = [s \in Students |-> 0]
  /\ submissions = <<>>

\* room for one more enrolment entry
CanEnroll == Len(courseDoc.enrolledStudents) < MaxEnrolled

\* requests served one at a time, in any order
NextPayments ==
  \/ \E s \in Students : Len(payments) < MaxPayments /\ initiatePayment(s)
  \/ \E paymentId \in 1..MaxPayments, success \in BOOLEAN :
       CanEnroll /\ processPayment(paymentId, success)
  \/ \E s \in Students :
       CanEnroll /\ Len(payments) < MaxPayments /\ enrollInFreeCourse(s)
  \/ \E s \in Students : CanEnroll /\ enrollInCourse(s)
  \/ \E paymentId \in 1..MaxPayments, s \in Students : requestRefund(paymentId, s)
  \/ \E paymentId \in 1..MaxPayments, full \in BOOLEAN : processRefund(paymentId, full)

SpecPayments == InitPayments /\ [][NextPayments]_vars

(* ------------------------------ submissions ---------------------------- *)
\* score and maxScore an instructor sends: nothing, half, more than all
Grades == {<<0, 2>>, <<1, 2>>, <<3, 2>>}

\* what the handlers of this section leave alone
rest == <<core, now, payments, courseDoc, users>>

\* Submission.findOne({student, 'assignment.assignmentId', course}): the
\* submissions of the student for the assignment
SubmissionsOf(s) == {i \in DOMAIN submissions : submissions[i].student = s}

\* new Submission({..., attemptNumber, status: 'submitted'}); 0 stands for
\* a grade without percentage
NewSubmission(s, attemptNumber) ==
  [student |-> s, attemptNumber |-> attemptNumber, status |-> "submitted",
   percentage |-> 0]

\* createSubmission: enrolment check, then findOne, which takes any one of
\* the matching documents (the query has no sort): existing is that
\* document, 0 when none matches
createSubmission(s, existing) ==
  /\ UNCHANGED rest
  /\ IF ~isAlreadyEnrolled(s)
     THEN UNCHANGED submissions /\ Answer("createSubmission", 403)
     ELSE /\ IF SubmissionsOf(s) = {} THEN existing = 0 ELSE existing \in SubmissionsOf(s)
          /\ IF existing # 0 /\ submissions[existing].status # "returned"
             THEN UNCHANGED submissions /\ Answer("createSubmission", 400)
             ELSE /\ submissions' =
                       Append(submissions,
                              NewSubmission(s, IF existing # 0
                                               THEN submissions[existing].attemptNumber + 1
                                               ELSE 1))
                  /\ Answer("createSubmission", 201)

\* gradeSubmission with submissionSchema.methods.gradeSubmission: the
\* percentage is computed when the grade has none, and validated by save()
gradeSubmission(submissionId, authorized, grade) ==
  /\ UNCHANGED rest
  /\ IF submissionId \notin DOMAIN submissions
     THEN UNCHANGED submissions /\ Answer("gradeSubmission", 404)
     ELSE IF ~authorized
     THEN UNCHANGED submissions /\ Answer("gradeSubmission", 403)
     ELSE LET old == submissions[submissionId]
              percentage == IF old.percentage # 0 THEN old.percentage
                            ELSE PercentageTable[grade[1], grade[2]]
          IN IF percentage > 100
             THEN UNCHANGED submissions /\ Answer("gradeSubmission", 500)
             ELSE /\ submissions' = [submissions EXCEPT
                                       ![submissionId].percentage = percentage,
                                       ![submissionId].status = "graded"]
                  /\ Answer("gradeSubmission", 200)

\* updateSubmission: the student sends the content again
updateSubmission(submissionId, s) ==
  /\ UNCHANGED rest
  /\ IF submissionId \notin DOMAIN submissions
     THEN UNCHANGED submissions /\ Answer("updateSubmission", 404)
     ELSE IF submissions[submissionId].student # s
     THEN UNCHANGED submissions /\ Answer("updateSubmission", 403)
     ELSE IF submissions[submissionId].status
               \notin {"submitted", "returned", "resubmitted"}
     THEN UNCHANGED submissions /\ Answer("updateSubmission", 400)
     ELSE /\ submissions' = [submissions EXCEPT ![submissionId].status = "resubmitted"]
          /\ Answer("updateSubmission", 200)

\* returnSubmissionForRevision
returnSubmissionForRevision(submissionId, authorized) ==
  /\ UNCHANGED rest
  /\ IF submissionId \notin DOMAIN submissions
     THEN UNCHANGED submissions /\ Answer("returnSubmissionForRevision", 404)
     ELSE IF ~authorized
     THEN UNCHANGED submissions /\ Answer("returnSubmissionForRevision", 403)
     ELSE /\ submissions' = [submissions EXCEPT ![submissionId].status = "returned"]
          /\ Answer("returnSubmissionForRevision", 200)

\* student s1 is enrolled in the published course, s2 is not
InitSubmissions ==
  /\ progressDocs = {}
  /\ certificates = {}
  /\ course = [m \in Modules |-> IF m = "m1" THEN 1 ELSE MaxLessons]
  /\ now = 1
  /\ nextId = 1
  /\ req = [r \in Reqs |-> IdleReq]
  /\ last = NoLast
  /\ errs = {}
  /\ acked = {}
  /\ payments = <<>>
  /\ courseDoc = [NewCourse("free") EXCEPT
                    !.enrolledStudents = <<"s1">>,
                    !.stats = [totalEnrollments |-> 1, activeStudents |-> 1]]
  /\ users = [s \in Students |-> IF s = "s1" THEN 1 ELSE 0]
  /\ submissions = <<>>

\* requests served one at a time, in any order
NextSubmissions ==
  \/ \E s \in Students, existing \in 0..MaxSubmissions :
       Len(submissions) < MaxSubmissions /\ createSubmission(s, existing)
  \/ \E submissionId \in 1..MaxSubmissions, authorized \in BOOLEAN, grade \in Grades :
       gradeSubmission(submissionId, authorized, grade)
  \/ \E submissionId \in 1..MaxSubmissions, s \in Students :
       updateSubmission(submissionId, s)
  \/ \E submissionId \in 1..MaxSubmissions, authorized \in BOOLEAN :
       returnSubmissionForRevision(submissionId, authorized)

SpecSubmissions == InitSubmissions /\ [][NextSubmissions]_vars

(* ------------------------------- claims -------------------------------- *)
Quiescent == \A r \in Reqs : req[r].pc = "idle"
CompletionOps == {"markLessonComplete", "markModuleComplete"}
CertificateIds == {c.id : c \in certificates}
\* request r is answered in this step
Answered(r) == req[r].pc # "idle" /\ req'[r].pc = "idle"

\* C1: at most one Certificate exists for the (student, course) pair in
\* every reachable state, however the qualifying progress updates and
\* manual issuance interleave between the lookup of an existing
\* certificate and the insert
C1_AtMostOneCertificate == Cardinality(certificates) <= 1

\* two issuers raced: one inserted the certificate, the insert of the
\* other was rejected by the unique index
C1_Witness ==
  /\ "duplicate" \in errs
  /\ Cardinality(certificates) = 1

C4_RetryAfterLookupFailure ==
  \A r \in Reqs :
    (req[r].pc = "save" /\ req[r].op \in CompletionOps) =>
      /\ req[r].certErr = "lookup" => ~req[r].doc.certificateGenerated
      /\ ( /\ req[r].doc.completionPercentage >= 100
           /\ ~req[r].doc.certificateGenerated )
         => req[r].certErr # "none"

\* C5: a request whose issuance trigger failed is answered by the save of
\* the record and by nothing else; unless that save is rejected for its
\* own reasons, the answer is 200 and the module completion and the
\* three derived fields are persisted
C5_TriggerFailureIsNotFatal ==
  [][\A r \in Reqs :
       (Answered(r) /\ last'.certErr # "none") =>
         /\ req[r].pc = "save"
         /\ (progressSchema(req[r].doc) /\ TheProgress.v = req[r].base.v) =>
              /\ last'.resp = 200
              /\ TheProgress'.overallProgress = req[r].doc.overallProgress
              /\ TheProgress'.completionPercentage = req[r].doc.completionPercentage
              /\ TheProgress'.finalScore = req[r].doc.finalScore
              /\ TheProgress'.moduleProgress[req[r].mod].completed
                   = req[r].doc.moduleProgress[req[r].mod].completed
    ]_vars

\* a progress update lost the race for the insert and was still answered
\* with 200, the record being at 100
C5_Witness ==
  /\ last.certErr = "duplicate" /\ last.resp = 200
  /\ last.op \in CompletionOps
  /\ \E p \in progressDocs : p.completionPercentage = 100

C7_NoLostUpdate ==
  Quiescent =>
    \A p \in progressDocs :
      /\ \A a \in acked :
           IF a[2] = "module" THEN p.moduleProgress[a[1]].completed
           ELSE p.moduleProgress[a[1]].completedLessons[a[2]] > 0
      /\ p.overallProgress = calculateOverallProgress(p)
      /\ p.completionPercentage = calculateCompletionPercentage(p)

\* C8: every persisted record has overallProgress and
\* completionPercentage in [0,100], whatever the assessment counters are
C8_PercentagesInRange ==
  \A p \in progressDocs :
    /\ p.overallProgress >= 0 /\ p.overallProgress <= 100
    /\ p.completionPercentage >= 0 /\ p.completionPercentage <= 100

\* the record counts more completed assignments than it has, and a
\* completion that would have taken it beyond 100 was answered with 500
C8_Witness ==
  /\ last.op \in CompletionOps /\ last.resp = 500
  /\ \E p \in progressDocs :
       /\ p.totalAssignments > 0
       /\ p.completedAssignments > p.totalAssignments
       /\ p.completionPercentage = 100

\* what C9 compares
Derived(p) ==
  [lessons |-> [m \in DOMAIN p.moduleProgress |-> p.moduleProgress[m].completedLessons],
   completed |-> CompletedModules(p),
   overallProgress |-> p.overallProgress,
   completionPercentage |-> p.completionPercentage,
   finalScore |-> p.finalScore]

\* C9: a markLessonComplete without timeSpent that repeats the request
\* answered (with 200) just before it leaves completedLessons, the
\* completed flags, overallProgress, completionPercentage and finalScore
\* as the first call left them
C9_MarkLessonIdempotent ==
  [][\A r \in Reqs :
       ( /\ Answered(r)
         /\ req[r].op = "markLessonComplete" /\ req[r].t = 0
         /\ Repeats(req[r]) )
       => Derived(TheProgress') = Derived(TheProgress)
    ]_vars

\* the same lesson was marked twice in a row, both answered with 200
C9_Witness ==
  /\ last.again /\ last.op = "markLessonComplete" /\ last.t = 0
  /\ \E p \in progressDocs : p.moduleProgress[last.mod].completedLessons[last.les] = 1

\* C10: a completion-only mutation never lowers the persisted
\* completionPercentage
C10_CompletionMonotone ==
  [][\A r \in Reqs :
       (Answered(r) /\ req[r].op \in CompletionOps /\ progressDocs # {})
       => TheProgress'.completionPercentage >= TheProgress.completionPercentage
    ]_vars

\* a completion was persisted on a record that tracks assignments and is
\* part of the way
C10_Witness ==
  /\ last.op \in CompletionOps /\ last.resp = 200
  /\ \E p \in progressDocs :
       /\ p.totalAssignments > 0
       /\ p.completionPercentage > 0 /\ p.completionPercentage < 100
       /\ CompletedModules(p) # {}

\* the handlers that end in updateProgress
UpdateOps == CompletionOps \cup {"updateStudentScores"}

\* the request went through autoGenerateCertificate: it failed there, or
\* it came back with a certificate that updateProgress linked
Attempted(rq) ==
  \/ rq.certErr # "none"
  \/ rq.doc.certificateGenerated /\ ~rq.base.certificateGenerated

\* C11: a progress update attempts issuance if and only if its recomputed
\* completionPercentage is >= 100 and certificateGenerated is false (so a
\* record with overallProgress 100 and completionPercentage < 100 is never
\* taken to the trigger)
C11_GatedByCompletionPercentage ==
  \A r \in Reqs :
    (req[r].pc = "save" /\ req[r].op \in UpdateOps) =>
      ( Attempted(req[r])
        <=> ( /\ req[r].doc.completionPercentage >= 100
              /\ ~req[r].base.certificateGenerated ) )

\* request r ends with a persisted progress update
Updated(r) ==
  /\ Answered(r) /\ req[r].pc = "save" /\ req[r].op \in UpdateOps
  /\ last'.resp = 200

\* C12: after every progress update overallProgress is 0 for a record
\* without modules and otherwise 100 * completed modules / modules rounded
\* half up; a record of 4 modules, 2 of them completed, that tracks no
\* assignments or quizzes has overallProgress 50 and completionPercentage 50
C12_OverallProgressRounded ==
  [][\A r \in Reqs :
       Updated(r) =>
         LET p == TheProgress'
             n == Cardinality(DOMAIN p.moduleProgress)
             c == Cardinality(CompletedModules(p))
         IN /\ p.overallProgress = IF n = 0 THEN 0 ELSE Round(100 * c, n)
            /\ (n = 4 /\ c = 2 /\ p.totalAssignments = 0 /\ p.totalQuizzes = 0)
                 => (p.overallProgress = 50 /\ p.completionPercentage = 50)
    ]_vars

\* C13: calculateCompletionPercentage returns 100 * completedItems /
\* totalItems rounded half up, with totalItems = modules + totalAssignments
\* + totalQuizzes and completedItems = completed modules +
\* completedAssignments + completedQuizzes, and 0 when totalItems is 0,
\* also when a total counter is 0 and its completed counter is not
C13_CompletionPercentageFormula ==
  [][\A r \in Reqs :
       Updated(r) =>
         LET p == TheProgress'
             totalItems == Cardinality(DOMAIN p.moduleProgress)
                           + p.totalAssignments + p.totalQuizzes
             completedItems == Cardinality(CompletedModules(p))
                               + p.completedAssignments + p.completedQuizzes
         IN p.completionPercentage =
              IF totalItems = 0 THEN 0 ELSE Round(100 * completedItems, totalItems)
    ]_vars

\* C14: for integer average scores in 0..100 the finalScore stored by a
\* progress update is 85 when both are 0 and otherwise 0.4 * avgQuizScore
\* + 0.6 * avgAssignmentScore rounded to the nearest integer; it lies in
\* 0..100
C14_FinalScoreWeighted ==
  [][\A r \in Reqs :
       Updated(r) =>
         LET p == TheProgress'
             q == p.avgQuizScore
             a == p.avgAssignmentScore
         IN /\ p.finalScore = IF q = 0 /\ a = 0 THEN 85 ELSE Round(4 * q + 6 * a, 10)
            /\ p.finalScore >= 0 /\ p.finalScore <= 100
    ]_vars

\* an update stored the weighted score of two different averages, the
\* quizzes lower than the assignments
C14_Witness ==
  /\ last.op \in UpdateOps /\ last.resp = 200
  /\ \E p \in progressDocs :
       /\ p.avgQuizScore = 71 /\ p.avgAssignmentScore = 92
       /\ p.finalScore = 84

\* the letters of the threshold table from D (50..54) up to A+ (95 and more)
Letters == <<"D", "C-", "C", "C+", "B-", "B", "B+", "A-", "A", "A+">>

\* C15: the grade of every persisted Certificate is the letter of its
\* finalScore in the descending table of five-point steps from A+ for 95
\* and more down to F below 50 (92 gives A, 50 gives D, 49 gives F),
\* after every save
C15_GradeMatchesFinalScore ==
  \A c \in certificates :
    LET fs == c.performance.finalScore
    IN c.performance.grade =
         IF fs < 50 THEN "F"
         ELSE IF fs >= 95 THEN "A+"
         ELSE Letters[((fs - 50) \div 5) + 1]

\* a certificate with final score 92 and grade A was saved again by a view
C15_Witness ==
  \E c \in certificates :
    /\ c.performance.finalScore = 92 /\ c.performance.grade = "A"
    /\ c.analytics.viewCount > 0

\* the two cases of each letter of the codes
CasePairs == {{"a", "A"}, {"b", "B"}}

SameIgnoringCase(x, y) ==
  /\ Len(x) = Len(y)
  /\ \A i \in 1..Len(x) : x[i] = y[i] \/ {x[i], y[i]} \in CasePairs

\* the issued certificates whose verification code is the given one up to
\* letter case
IssuedWithCode(code) ==
  {c \in certificates : c.status = "issued" /\ SameIgnoringCase(c.verificationCode, code)}

\* C16: verifyCertificate(code) goes on to return the summary of a
\* certificate exactly when an issued certificate has that code up to
\* letter case, and then it is such a certificate; for any other code, the
\* code of a revoked certificate included, it answers 404
C16_VerifyIssuedIgnoringCase ==
  [][\A r \in Reqs :
       /\ (req[r].pc = "idle" /\ req'[r].pc = "verify")
          => req'[r].loaded \in IssuedWithCode(req'[r].code)
       /\ (req' = req /\ last' # last /\ last'.op = "verifyCertificate")
          => last'.resp = 404 /\ IssuedWithCode(last'.code) = {}
       /\ (Answered(r) /\ req[r].op = "verifyCertificate")
          => last'.resp = 200 /\ req[r].loaded.status = "issued"
    ]_vars

\* a certificate that was verified once was revoked, and a verification
\* with its code in lower case was answered 404
C16_Witness ==
  /\ last.op = "verifyCertificate" /\ last.resp = 404 /\ last.code = <<"a", "1">>
  /\ \E c \in certificates :
       /\ c.status = "revoked" /\ c.verificationCode = <<"A", "1">>
       /\ c.analytics.verificationCount = 1

\* a generateCertificate request is answered in this step
Generated ==
  /\ last'.op = "generateCertificate"
  /\ \/ req' = req /\ last' # last
     \/ \E r \in Reqs : Answered(r) /\ req[r].op = "generateCertificate"

\* C17: manual issuance answers Conflict (400) and creates nothing when a
\* Certificate of the pair exists; answers Precondition (400) and creates
\* nothing when the record is absent or below 100; otherwise it creates an
\* issued Certificate and returns it (201)
C17_ManualIssuanceOutcomes ==
  [][Generated =>
       LET exists == certificates # {}
           incomplete == progressDocs = {} \/ TheProgress.completionPercentage < 100
       IN IF exists \/ incomplete
          THEN last'.resp = 400 /\ certificates' = certificates
          ELSE /\ last'.resp = 201
               /\ \E c \in certificates' : certificates' = {c} /\ c.status = "issued"
    ]_vars

\* C18: a Certificate that is issued (or was, and is revoked) has its
\* certificateNumber and its verificationCode, and no step changes the
\* number or the code a persisted Certificate has
C18_NumberAndCodeSetOnce ==
  [][/\ \A c \in certificates' :
          c.status \in {"issued", "revoked"}
          => c.certificateNumber # Unset /\ c.verificationCode # Unset
     /\ \A c \in certificates, d \in certificates' :
          c.id = d.id =>
            /\ c.certificateNumber # Unset => d.certificateNumber = c.certificateNumber
            /\ c.verificationCode # Unset => d.verificationCode = c.verificationCode
    ]_vars

\* a certificate issued with the second code was viewed, downloaded,
\* verified and then revoked
C18_Witness ==
  \E c \in certificates :
    /\ c.status = "revoked"
    /\ c.certificateNumber = <<"CERT", 7>> /\ c.verificationCode = <<"B", "1">>
    /\ c.analytics.viewCount = 1 /\ c.analytics.downloadCount = 1
    /\ c.analytics.verificationCount = 1

\* the score fields of an Enrollment Record that a certificate snapshots
ScoreFields ==
  {"finalScore", "totalAssignments", "completedAssignments", "totalQuizzes",
   "completedQuizzes", "avgQuizScore", "avgAssignmentScore"}

C20_CompletionDateSetOnce ==
  [][/\ (progressDocs = {} /\ progressDocs' # {})
        => TheProgress'.completionDate = 0 /\ TheProgress'.completedAt = 0
     /\ (progressDocs # {} /\ progressDocs' # {})
        => LET p == TheProgress
               q == TheProgress'
           IN /\ p.completionDate # 0 => q.completionDate = p.completionDate
              /\ p.completedAt # 0 => q.completedAt = p.completedAt
              /\ (p.completionDate = 0 /\ q.completionDate # 0)
                 => \E r \in Reqs : Updated(r) /\ req[r].doc.completionPercentage >= 100
              /\ \A r \in Reqs :
                   (Updated(r) /\ req[r].doc.completionPercentage >= 100)
                   => q.completionDate # 0 /\ q.completedAt # 0
    ]_vars

\* C21: once the persisted status of a Certificate is revoked, no step
\* (trigger, manual issuance, verification, view, revocation, saves of
\* requests that loaded it while it was issued) makes it issued again, and
\* no issued Certificate of the pair is created
C21_RevocationIsTerminal ==
  [][(\E c \in certificates : c.status = "revoked")
     => /\ \A d \in certificates' : d.status # "issued"
        /\ \A c \in certificates : \E d \in certificates' : d.id = c.id
    ]_vars

\* a view that loaded the certificate while it was issued was saved after
\* the revocation, the trigger ran again and found the revoked certificate
C21_Witness ==
  /\ \E c \in certificates : c.status = "revoked" /\ c.analytics.viewCount > 0
  /\ \E r \in Reqs :
       /\ req[r].op = "markModuleComplete" /\ req[r].pc = "save"
       /\ req[r].doc.certificateGenerated
       /\ \E c \in certificates : c.id = req[r].doc.certificateEarned /\ c.status = "revoked"

Distinct(lessons) == {l \in LessonIds : lessons[l] > 0}

\* C25: markLessonComplete sets a module's completed flag exactly when,
\* with the lesson added, the distinct lesson ids completed in the module
\* are at least as many as the lessons the course declares for it at that
\* time, and never when the course no longer has the module; a 200 persists
\* the flag as decided, and no step sets a persisted flag back to false
C25_ModuleFlagFollowsCourse ==
  [][/\ \A r \in Reqs :
          (req[r].pc = "course" /\ req'[r].pc \in {"cert_find", "save"})
          => LET m == req[r].mod
                 before == req[r].doc.moduleProgress[m]
                 after == req'[r].doc.moduleProgress[m]
             IN /\ before.completedLessons[req[r].les] > 0
                /\ after.completed
                     = ( \/ before.completed
                         \/ /\ course[m] # Absent
                            /\ Cardinality(Distinct(before.completedLessons)) >= course[m] )
     /\ \A r \in Reqs :
          (Answered(r) /\ req[r].op = "markLessonComplete" /\ last'.resp = 200)
          => TheProgress'.moduleProgress[req[r].mod].completed
               = req[r].doc.moduleProgress[req[r].mod].completed
     /\ \A p \in progressDocs, m \in Modules :
          (m \in DOMAIN p.moduleProgress /\ p.moduleProgress[m].completed)
          => /\ progressDocs' # {}
             /\ \A q \in progressDocs' :
                  m \in DOMAIN q.moduleProgress /\ q.moduleProgress[m].completed
    ]_vars

\* a lesson completion was persisted that flipped module m2 once both of
\* its lessons were completed, while module m1, dropped from the course
\* after its only lesson was completed, is not flipped
C25_Witness ==
  /\ last.op = "markLessonComplete" /\ last.resp = 200 /\ last.mod = "m2"
  /\ course["m1"] = Absent /\ course["m2"] = 2
  /\ \E p \in progressDocs :
       /\ DOMAIN p.moduleProgress = Modules
       /\ p.moduleProgress["m2"].completed
       /\ Distinct(p.moduleProgress["m2"].completedLessons) = LessonIds
       /\ ~p.moduleProgress["m1"].completed
       /\ p.moduleProgress["m1"].completedLessons["l1"] > 0

\* C26: a markLessonComplete answered with 200 for a lesson that is already
\* in the module's completedLessons, with timeSpent t > 0, leaves the
\* completedLessons of the module as they were and adds t to the module's
\* timeSpent and to totalTimeSpent, so that k such calls add k times t
C26_TimeAddedOnEveryRepeat ==
  [][\A r \in Reqs :
       ( /\ Answered(r) /\ req[r].op = "markLessonComplete" /\ last'.resp = 200
         /\ req[r].t > 0
         /\ TheProgress.moduleProgress[req[r].mod].completedLessons[req[r].les] > 0 )
       => LET m == req[r].mod
              before == TheProgress
              after == TheProgress'
          IN /\ after.moduleProgress[m].completedLessons
                  = before.moduleProgress[m].completedLessons
             /\ after.moduleProgress[m].timeSpent
                  = before.moduleProgress[m].timeSpent + req[r].t
             /\ after.totalTimeSpent = before.totalTimeSpent + req[r].t
    ]_vars

\* lesson l1 was marked three times with one minute each, the last two
\* being repeats: the lesson is in the array once and three minutes are on
\* the module and on the record
C26_Witness ==
  /\ last.again /\ last.op = "markLessonComplete" /\ last.t = 1 /\ last.les = "l1"
  /\ \E p \in progressDocs :
       /\ p.moduleProgress[last.mod].completedLessons = [NoLessons EXCEPT !["l1"] = 1]
       /\ p.moduleProgress[last.mod].timeSpent = 3
       /\ p.totalTimeSpent = 3

\* C27: a persisted record with certificateGenerated true has in
\* certificateEarned the id of a Certificate of the pair that exists, and
\* that Certificate was persisted before the step that persisted the flag
C27_FlagImpliesCertificate ==
  [][\A p \in progressDocs' :
       p.certificateGenerated
       => /\ \E c \in certificates : c.id = p.certificateEarned
          /\ \E c \in certificates' : c.id = p.certificateEarned
    ]_vars

\* every request is answered, the last one a completion with 200, and the
\* persisted record links the issued certificate of the pair
C27_Witness ==
  /\ Quiescent /\ last.op \in CompletionOps /\ last.resp = 200
  /\ \E p \in progressDocs :
       /\ p.certificateGenerated
       /\ \E c \in certificates : c.id = p.certificateEarned /\ c.status = "issued"

Entries(s) ==
  {i \in DOMAIN courseDoc.enrolledStudents : courseDoc.enrolledStudents[i] = s}

\* C29: after any sequence of enrollInCourse, enrollInFreeCourse,
\* initiatePayment, processPayment and requestRefund calls a student is at
\* most once in the course's enrolledStudents, and the enrolment side
\* effects of a payment (the push and the two stats increments) are applied
\* at most once: never for a payment that was completed before
C29_EnrolledAtMostOnce ==
  [][/\ \A s \in Students : Cardinality(Entries(s)') <= 1
     /\ courseDoc'.stats.totalEnrollments <= Cardinality(Students)
     /\ courseDoc'.stats.activeStudents <= Cardinality(Students)
     /\ \A paymentId \in DOMAIN payments :
          ( /\ payments[paymentId].completedAt # 0
            /\ payments'[paymentId] # payments[paymentId] )
          => courseDoc' = courseDoc
    ]_vars

\* C30: across any sequence of createSubmission, gradeSubmission,
\* returnSubmissionForRevision and updateSubmission calls, the submissions
\* of a student for the assignment have pairwise distinct attemptNumbers
\* and at most one of them is in a status other than returned
C30_OneOpenSubmission ==
  \A s \in Students :
    /\ \A i, j \in SubmissionsOf(s) :
         i # j => submissions[i].attemptNumber # submissions[j].attemptNumber
    /\ Cardinality({i \in SubmissionsOf(s) : submissions[i].status # "returned"}) <= 1

====
